---- MODULE Spec2Model ----
(***************************************************************************)
(* Model of salvo's HTTP response: the body container ResBody and the      *)
(* Response envelope of crates/core/src/http/response.rs.                  *)
(*                                                                         *)
(* Bytes is a sequence of byte values.  A stream source is the sequence of *)
(* the items it has still to emit.  A header value is the sequence of its  *)
(* ';'-separated, trimmed segments, each split at its first '='.           *)
(***************************************************************************)
EXTENDS Integers, Sequences, FiniteSets, TLC

\* Bounds of the model.
MaxAppends == 3
MaxPolls == 5
MaxHeaderVals == 2
MaxEnvelopeBufs == 2

VARIABLES status_code, status_error, headers, version, cookies, body,
          res, pc, ret, built, appended, pulled, interleaved

vars == <<status_code, status_error, headers, version, cookies, body,
          res, pc, ret, built, appended, pulled, interleaved>>

envelope == <<status_code, status_error, headers, version, cookies>>
ghosts == <<built, appended, pulled, interleaved>>

----------------------------------------------------------------------------
\* Byte buffers.

Empty == <<>>
Hello == <<104, 101, 108, 108, 111>>
World == <<32, 119, 111, 114, 108, 100>>
OneByte == <<7>>

Buffers == {Empty, Hello, World, OneByte}

RECURSIVE Concat(_)
Concat(bufs) == IF bufs = <<>> THEN <<>> ELSE Head(bufs) \o Concat(Tail(bufs))

\* Items of a body stream: Result<Bytes, Box<dyn Error>>.
Ok(b) == [ok |-> TRUE, data |-> b, err |-> ""]
Err(e) == [ok |-> FALSE, data |-> <<>>, err |-> e]

\* Results of poll_next: Poll<Option<Item>>.
ReadyNone == [ready |-> TRUE, some |-> FALSE, item |-> Ok(<<>>)]
ReadySome(i) == [ready |-> TRUE, some |-> TRUE, item |-> i]
Pending == [ready |-> FALSE, some |-> FALSE, item |-> Ok(<<>>)]

\* The sources given to streaming / received as inbound bodies.
Sources == { <<>>,
             <<Ok(Hello), Ok(World)>>,
             <<Ok(OneByte), Err("reset"), Ok(Hello)>> }

----------------------------------------------------------------------------
\* ResBody.

BodyNone == [tag |-> "None", bytes |-> <<>>, chunks |-> <<>>, stream |-> <<>>]
BodyOnce(b) == [tag |-> "Once", bytes |-> b, chunks |-> <<>>, stream |-> <<>>]
BodyChunks(q) == [tag |-> "Chunks", bytes |-> <<>>, chunks |-> q, stream |-> <<>>]
BodyStream(s) == [tag |-> "Stream", bytes |-> <<>>, chunks |-> <<>>, stream |-> s]

is_none(b) == b.tag = "None"
is_once(b) == b.tag = "Once"
is_chunks(b) == b.tag = "Chunks"
is_stream(b) == b.tag = "Stream"

\* chunks.iter().map(|bytes| bytes.len() as u64).sum(); the lengths of the
\* model stay far below 2^64, so the u64 sum never wraps.
RECURSIVE SumLen(_)
SumLen(chunks) ==
    IF chunks = <<>> THEN 0
    ELSE Len(Head(chunks)) + SumLen(Tail(chunks))

SomeSize(n) == [some |-> TRUE, val |-> n]
NoSize == [some |-> FALSE, val |-> 0]

size_once_zero(b) ==
    CASE b.tag = "None" -> SomeSize(0)
      [] b.tag = "Once" -> SomeSize(0)
      [] b.tag = "Chunks" -> SomeSize(SumLen(b.chunks))
      [] b.tag = "Stream" -> NoSize

size(b) ==
    CASE b.tag = "None" -> SomeSize(0)
      [] b.tag = "Once" -> SomeSize(Len(b.bytes))
      [] b.tag = "Chunks" -> SomeSize(SumLen(b.chunks))
      [] b.tag = "Stream" -> NoSize

\* poll_next: the body after the call and the value returned.  srcReady tells
\* whether the underlying source of a Stream body has an item (or its end) at hand.
poll_next_keep(b, srcReady) ==
    CASE b.tag = "None" -> [body |-> b, result |-> ReadyNone]
      [] b.tag = "Once" ->
            IF b.bytes = <<>>
            THEN [body |-> b, result |-> ReadyNone]
            ELSE [body |-> b, result |-> ReadySome(Ok(b.bytes))]
      [] b.tag = "Chunks" ->
            IF b.chunks = <<>>
            THEN [body |-> b, result |-> ReadyNone]
            ELSE [body |-> BodyChunks(Tail(b.chunks)),
                  result |-> ReadySome(Ok(Head(b.chunks)))]
      [] b.tag = "Stream" ->
            IF ~srcReady THEN [body |-> b, result |-> Pending]
            ELSE IF b.stream = <<>> THEN [body |-> b, result |-> ReadyNone]
            ELSE [body |-> BodyStream(Tail(b.stream)),
                  result |-> ReadySome(Head(b.stream))]

poll_next_error_ends(b, srcReady) ==
    CASE b.tag = "None" -> [body |-> b, result |-> ReadyNone]
      [] b.tag = "Once" ->
            IF b.bytes = <<>>
            THEN [body |-> b, result |-> ReadyNone]
            ELSE [body |-> BodyOnce(<<>>), result |-> ReadySome(Ok(b.bytes))]
      [] b.tag = "Chunks" ->
            IF b.chunks = <<>>
            THEN [body |-> b, result |-> ReadyNone]
            ELSE [body |-> BodyChunks(Tail(b.chunks)),
                  result |-> ReadySome(Ok(Head(b.chunks)))]
      [] b.tag = "Stream" ->
            IF ~srcReady THEN [body |-> b, result |-> Pending]
            ELSE IF b.stream = <<>> THEN [body |-> b, result |-> ReadyNone]
            ELSE IF ~Head(b.stream).ok
                 THEN [body |-> BodyStream(Tail(b.stream)), result |-> ReadyNone]
            ELSE [body |-> BodyStream(Tail(b.stream)),
                  result |-> ReadySome(Head(b.stream))]

poll_next_pop_back(b, srcReady) ==
    CASE b.tag = "None" -> [body |-> b, result |-> ReadyNone]
      [] b.tag = "Once" ->
            IF b.bytes = <<>>
            THEN [body |-> b, result |-> ReadyNone]
            ELSE [body |-> BodyOnce(<<>>), result |-> ReadySome(Ok(b.bytes))]
      [] b.tag = "Chunks" ->
            IF b.chunks = <<>>
            THEN [body |-> b, result |-> ReadyNone]
            ELSE [body |-> BodyChunks(SubSeq(b.chunks, 1, Len(b.chunks) - 1)),
                  result |-> ReadySome(Ok(b.chunks[Len(b.chunks)]))]
      [] b.tag = "Stream" ->
            IF ~srcReady THEN [body |-> b, result |-> Pending]
            ELSE IF b.stream = <<>> THEN [body |-> b, result |-> ReadyNone]
            ELSE [body |-> BodyStream(Tail(b.stream)),
                  result |-> ReadySome(Head(b.stream))]

poll_next_pending_empty(b, srcReady) ==
    CASE b.tag = "None" -> [body |-> b, result |-> ReadyNone]
      [] b.tag = "Once" ->
            IF b.bytes = <<>>
            THEN [body |-> b, result |-> ReadyNone]
            ELSE [body |-> BodyOnce(<<>>), result |-> ReadySome(Ok(b.bytes))]
      [] b.tag = "Chunks" ->
            IF b.chunks = <<>>
            THEN [body |-> b, result |-> Pending]
            ELSE [body |-> BodyChunks(Tail(b.chunks)),
                  result |-> ReadySome(Ok(Head(b.chunks)))]
      [] b.tag = "Stream" ->
            IF ~srcReady THEN [body |-> b, result |-> Pending]
            ELSE IF b.stream = <<>> THEN [body |-> b, result |-> ReadyNone]
            ELSE [body |-> BodyStream(Tail(b.stream)),
                  result |-> ReadySome(Head(b.stream))]

poll_next_empty_is_end(b, srcReady) ==
    CASE b.tag = "None" -> [body |-> b, result |-> ReadyNone]
      [] b.tag = "Once" ->
            IF b.bytes = <<>>
            THEN [body |-> b, result |-> ReadyNone]
            ELSE [body |-> BodyOnce(<<>>), result |-> ReadySome(Ok(b.bytes))]
      [] b.tag = "Chunks" ->
            IF b.chunks = <<>>
            THEN [body |-> b, result |-> ReadyNone]
            ELSE IF Head(b.chunks) = <<>>
                 THEN [body |-> BodyChunks(Tail(b.chunks)), result |-> ReadyNone]
            ELSE [body |-> BodyChunks(Tail(b.chunks)),
                  result |-> ReadySome(Ok(Head(b.chunks)))]
      [] b.tag = "Stream" ->
            IF ~srcReady THEN [body |-> b, result |-> Pending]
            ELSE IF b.stream = <<>> THEN [body |-> b, result |-> ReadyNone]
            ELSE [body |-> BodyStream(Tail(b.stream)),
                  result |-> ReadySome(Head(b.stream))]

poll_next_to_none(b, srcReady) ==
    CASE b.tag = "None" -> [body |-> b, result |-> ReadyNone]
      [] b.tag = "Once" ->
            IF b.bytes = <<>>
            THEN [body |-> b, result |-> ReadyNone]
            ELSE [body |-> BodyNone, result |-> ReadySome(Ok(b.bytes))]
      [] b.tag = "Chunks" ->
            IF b.chunks = <<>>
            THEN [body |-> b, result |-> ReadyNone]
            ELSE [body |-> BodyChunks(Tail(b.chunks)),
                  result |-> ReadySome(Ok(Head(b.chunks)))]
      [] b.tag = "Stream" ->
            IF ~srcReady THEN [body |-> b, result |-> Pending]
            ELSE IF b.stream = <<>> THEN [body |-> b, result |-> ReadyNone]
            ELSE [body |-> BodyStream(Tail(b.stream)),
                  result |-> ReadySome(Head(b.stream))]

poll_next(b, srcReady) ==
    CASE b.tag = "None" -> [body |-> b, result |-> ReadyNone]
      [] b.tag = "Once" ->
            IF b.bytes = <<>>
            THEN [body |-> b, result |-> ReadyNone]
            ELSE [body |-> BodyOnce(<<>>), result |-> ReadySome(Ok(b.bytes))]
      [] b.tag = "Chunks" ->
            IF b.chunks = <<>>
            THEN [body |-> b, result |-> ReadyNone]
            ELSE [body |-> BodyChunks(Tail(b.chunks)),
                  result |-> ReadySome(Ok(Head(b.chunks)))]
      [] b.tag = "Stream" ->
            IF ~srcReady THEN [body |-> b, result |-> Pending]
            ELSE IF b.stream = <<>> THEN [body |-> b, result |-> ReadyNone]
            ELSE [body |-> BodyStream(Tail(b.stream)),
                  result |-> ReadySome(Head(b.stream))]

\* Response::write_body on the body: the body after the call and whether Ok.
write_body_swapped(b, data) ==
    CASE b.tag = "None" -> [body |-> BodyOnce(data), ok |-> TRUE]
      [] b.tag = "Once" -> [body |-> BodyChunks(<<data, b.bytes>>), ok |-> TRUE]
      [] b.tag = "Chunks" -> [body |-> BodyChunks(<<data>> \o b.chunks), ok |-> TRUE]
      [] b.tag = "Stream" -> [body |-> b, ok |-> FALSE]

write_body_into_stream(b, data) ==
    CASE b.tag = "None" -> [body |-> BodyOnce(data), ok |-> TRUE]
      [] b.tag = "Once" -> [body |-> BodyChunks(<<b.bytes, data>>), ok |-> TRUE]
      [] b.tag = "Chunks" -> [body |-> BodyChunks(Append(b.chunks, data)), ok |-> TRUE]
      [] b.tag = "Stream" -> [body |-> BodyStream(Append(b.stream, Ok(data))), ok |-> TRUE]

write_body_once_replace(b, data) ==
    CASE b.tag = "None" -> [body |-> BodyOnce(data), ok |-> TRUE]
      [] b.tag = "Once" -> [body |-> BodyChunks(<<data>>), ok |-> TRUE]
      [] b.tag = "Chunks" -> [body |-> BodyChunks(Append(b.chunks, data)), ok |-> TRUE]
      [] b.tag = "Stream" -> [body |-> b, ok |-> FALSE]

write_body(b, data) ==
    CASE b.tag = "None" -> [body |-> BodyOnce(data), ok |-> TRUE]
      [] b.tag = "Once" -> [body |-> BodyChunks(<<b.bytes, data>>), ok |-> TRUE]
      [] b.tag = "Chunks" -> [body |-> BodyChunks(Append(b.chunks, data)), ok |-> TRUE]
      [] b.tag = "Stream" -> [body |-> b, ok |-> FALSE]

\* Response::streaming on the body.
streaming_replace(b, source) == [body |-> BodyStream(source), ok |-> TRUE]

streaming(b, source) ==
    CASE b.tag = "Once" -> [body |-> b, ok |-> FALSE]
      [] b.tag = "Chunks" -> [body |-> b, ok |-> FALSE]
      [] b.tag = "Stream" -> [body |-> b, ok |-> FALSE]
      [] OTHER -> [body |-> BodyStream(source), ok |-> TRUE]

----------------------------------------------------------------------------
\* Status codes and structured errors.

StatusCodes == {200, 302, 404}
NOT_FOUND == 404

NoCode == [some |-> FALSE, code |-> 0]
SomeCode(c) == [some |-> TRUE, code |-> c]

is_success(code) == 200 <= code /\ code <= 299

NoError == [some |-> FALSE, code |-> 0, name |-> ""]
SomeError(e) == [some |-> TRUE, code |-> e.code, name |-> e.name]

not_found == [code |-> 404, name |-> "Not Found"]
internal_server_error == [code |-> 500, name |-> "Internal Server Error"]

StatusErrors == {not_found}

\* StatusError::from_code: the fixed code -> detail mapping; it has entries for
\* client and server errors only.
from_code(code) ==
    CASE code = 404 -> SomeError(not_found)
      [] code = 500 -> SomeError(internal_server_error)
      [] OTHER -> NoError

has_mapping(code) == from_code(code).some

----------------------------------------------------------------------------
\* Header values and the header map.

Seg(k, v) == [k |-> k, eq |-> TRUE, v |-> v]
Token(k) == [k |-> k, eq |-> FALSE, v |-> ""]
Plain(s) == <<Token(s)>>

\* Strings holding a control character, and strings holding a byte >= 0x80.
CtlStrings == {"/x\n"}
OpaqueStrings == {"<80>"}

CONTENT_LENGTH == "content-length"
CONTENT_TYPE == "content-type"
SET_COOKIE == "set-cookie"
HeaderNames == {CONTENT_LENGTH, CONTENT_TYPE, SET_COOKIE}

EmptyHeaders == [n \in HeaderNames |-> <<>>]

\* TryInto<HeaderValue> / str::parse::<HeaderValue>: control characters are refused.
is_valid_header_value(raw) ==
    \A i \in 1..Len(raw) : raw[i].k \notin CtlStrings /\ raw[i].v \notin CtlStrings

\* HeaderValue::to_str: only visible ASCII converts.
to_str_ok(hv) ==
    \A i \in 1..Len(hv) : hv[i].k \notin OpaqueStrings /\ hv[i].v \notin OpaqueStrings

\* HeaderMap::insert and HeaderMap::append.
insert(h, name, value) == [h EXCEPT ![name] = <<value>>]
append(h, name, value) == [h EXCEPT ![name] = Append(@, value)]

----------------------------------------------------------------------------
\* Cookies and the cookie jar.

Cookie(n, v, p) == [name |-> n, value |-> v, path |-> p, max_age |-> ""]

\* Percent-encoding of a cookie's name and value (Cookie::encoded) and its
\* inverse (Cookie::parse_encoded); strings without reserved characters are kept.
percent_encode(str) == CASE str = "x y" -> "x%20y" [] OTHER -> str
percent_decode(str) == CASE str = "x%20y" -> "x y" [] OTHER -> str

\* cookie.encoded().to_string(): "name=value" and the attributes that are set.
encoded(c) ==
    <<Seg(percent_encode(c.name), percent_encode(c.value))>>
      \o (IF c.path = "" THEN <<>> ELSE <<Seg("Path", c.path)>>)
      \o (IF c.max_age = "" THEN <<>> ELSE <<Seg("Max-Age", c.max_age)>>)

\* Cookie::parse_encoded on one trimmed segment: a name=value pair with a
\* non-empty name, or an error.
parse_encoded(seg) ==
    IF seg.eq /\ seg.k # ""
    THEN [ok |-> TRUE, cookie |-> Cookie(percent_decode(seg.k), percent_decode(seg.v), "")]
    ELSE [ok |-> FALSE, cookie |-> Cookie("", "", "")]

\* CookieJar: the original cookies and the delta, each holding one cookie a name.
NewJar == [original |-> {}, delta |-> {}]

jar_add(jar, c) ==
    [jar EXCEPT !.delta = {d \in @ : d.name # c.name} \cup {c}]

make_removal(c) == [c EXCEPT !.value = "", !.max_age = "0"]

jar_remove(jar, c) ==
    IF \E o \in jar.original : o.name = c.name
    THEN [jar EXCEPT !.delta = {d \in @ : d.name # c.name} \cup {make_removal(c)}]
    ELSE [jar EXCEPT !.delta = {d \in @ : d.name # c.name}]

\* The orders in which CookieJar::delta may iterate its hash set.
Orders(S) ==
    {o \in [1..Cardinality(S) -> S] : \A i, j \in 1..Cardinality(S) : o[i] = o[j] => i = j}

\* The cookies an application sets.
Cookies == { Cookie("a", "1", ""), Cookie("a", "2", "/x\n"), Cookie("x y", "1", "/") }
CookieNames == {c.name : c \in Cookies}

----------------------------------------------------------------------------
\* The Response envelope, as a record of its fields.

HTTP_11 == "HTTP/1.1"
HTTP_2 == "HTTP/2.0"

Response(sc, se, h, v, c, b) ==
    [status_code |-> sc, status_error |-> se, headers |-> h, version |-> v,
     cookies |-> c, body |-> b]

\* Response::new
new == Response(NoCode, NoError, EmptyHeaders, HTTP_11, NewJar, BodyNone)

\* The cookie jar parsed from the inbound headers: the first Set-Cookie value,
\* split at ';', each segment parsed on its own.
RECURSIVE parse_segments(_, _)
parse_segments(jar, segs) ==
    IF segs = <<>> THEN jar
    ELSE LET p == parse_encoded(Head(segs))
         IN  parse_segments(IF p.ok THEN jar_add(jar, p.cookie) ELSE jar, Tail(segs))

inbound_cookies(h) ==
    IF h[SET_COOKIE] # <<>>
    THEN IF to_str_ok(h[SET_COOKIE][1])
         THEN parse_segments(NewJar, h[SET_COOKIE][1])
         ELSE NewJar
    ELSE NewJar

\* impl From<hyper::Body> for ResBody: the inbound body's items, as a Stream.
from_body(hbody) == BodyStream(hbody)

\* impl From<hyper::Response<hyper::Body>> for Response
from(inb) ==
    Response(SomeCode(inb.status), NoError, inb.headers, inb.version,
             inbound_cookies(inb.headers), from_body(inb.body))

\* The inbound responses a Response is constructed from.
Inbound ==
    { [status |-> 404, version |-> HTTP_11,
       headers |-> [EmptyHeaders EXCEPT ![CONTENT_LENGTH] = <<Plain("5")>>,
                                        ![SET_COOKIE] = << <<Seg("d", "<80>")>> >>],
       body |-> <<Ok(Hello)>>],
      [status |-> 200, version |-> HTTP_2,
       headers |-> [EmptyHeaders EXCEPT
                      ![SET_COOKIE] = << <<Seg("a", "1"), Seg("Path", "/")>>,
                                         <<Seg("b", "2")>> >>],
       body |-> <<>>],
      [status |-> 302, version |-> HTTP_11,
       headers |-> [EmptyHeaders EXCEPT
                      ![SET_COOKIE] = << <<Seg("c", "3"), Token("HttpOnly")>> >>],
       body |-> <<Ok(OneByte), Err("reset")>>] }

\* Response::set_status_code
set_status_code_always(r, code) ==
    [r EXCEPT !.status_code = SomeCode(code), !.status_error = from_code(code)]

set_status_code(r, code) ==
    IF ~is_success(code)
    THEN [r EXCEPT !.status_code = SomeCode(code), !.status_error = from_code(code)]
    ELSE [r EXCEPT !.status_code = SomeCode(code)]

\* Response::set_status_error
set_status_error(r, err) ==
    [r EXCEPT !.status_code = SomeCode(err.code), !.status_error = SomeError(err)]

\* Response::add_header
add_header_always_append(r, name, value, overwrite) ==
    IF ~is_valid_header_value(value) THEN [r |-> r, ok |-> FALSE]
    ELSE [r |-> [r EXCEPT !.headers = append(@, name, value)], ok |-> TRUE]

add_header(r, name, value, overwrite) ==
    IF ~is_valid_header_value(value) THEN [r |-> r, ok |-> FALSE]
    ELSE IF overwrite
         THEN [r |-> [r EXCEPT !.headers = insert(@, name, value)], ok |-> TRUE]
         ELSE [r |-> [r EXCEPT !.headers = append(@, name, value)], ok |-> TRUE]

\* The contents rendered into a response: a text, which sets the content type
\* and writes its bytes to the body, and a status error, which sets itself.
TextPiece(b) == [kind |-> "text", text |-> b, err |-> not_found]
ErrorPiece(e) == [kind |-> "error", text |-> <<>>, err |-> e]
Pieces == {TextPiece(Hello), ErrorPiece(internal_server_error)}

TEXT_PLAIN == <<Token("text/plain"), Seg("charset", "utf-8")>>

piece_render(piece, r) ==
    IF piece.kind = "text"
    THEN [r EXCEPT !.headers = insert(@, CONTENT_TYPE, TEXT_PLAIN),
                   !.body = write_body(@, piece.text).body]
    ELSE set_status_error(r, piece.err)

\* Response::render
render(r, piece) == piece_render(piece, r)

\* Response::stuff
stuff(r, code, piece) == piece_render(piece, [r EXCEPT !.status_code = SomeCode(code)])

\* Response::write_cookies_to_headers, the delta iterated in the order given.
RECURSIVE append_cookies_stop(_, _)
append_cookies_stop(h, order) ==
    IF order = <<>> THEN h
    ELSE LET hv == encoded(Head(order))
         IN  IF is_valid_header_value(hv)
             THEN append_cookies_stop(append(h, SET_COOKIE, hv), Tail(order))
             ELSE h

RECURSIVE append_cookies(_, _)
append_cookies(h, order) ==
    IF order = <<>> THEN h
    ELSE LET hv == encoded(Head(order))
         IN  append_cookies(IF is_valid_header_value(hv) THEN append(h, SET_COOKIE, hv) ELSE h,
                            Tail(order))

write_cookies_to_headers(r, order) ==
    [r EXCEPT !.headers = append_cookies(@, order), !.cookies = NewJar]

\* The hyper::Response handed to write_back: empty, as the service builds it.
NewHyperResponse == [status |-> 200, headers |-> EmptyHeaders, body |-> <<>>]

\* hyper::Body::from(bytes) and hyper::Body::wrap_stream, as the items the
\* transport receives.
hyper_body_from(bytes) == IF bytes = <<>> THEN <<>> ELSE <<Ok(bytes)>>

wrap_chunks_reversed(chunks) == [i \in 1..Len(chunks) |-> Ok(chunks[Len(chunks) + 1 - i])]

wrap_chunks(chunks) == [i \in 1..Len(chunks) |-> Ok(chunks[i])]

\* write_back, the status: the response's, or 404 when none was set.
out_status_default_ok(sc) == IF sc.some THEN sc.code ELSE 200

out_status(sc) == IF sc.some THEN sc.code ELSE NOT_FOUND

\* write_back, the headers: the response's, with Content-Length: 0 for no body.
out_headers_always(h, b) == insert(h, CONTENT_LENGTH, Plain("0"))

out_headers(h, b) ==
    IF b.tag = "None" THEN insert(h, CONTENT_LENGTH, Plain("0")) ELSE h

\* write_back, the body: the items the outgoing body yields.
out_body(b, out) ==
    CASE b.tag = "None" -> out.body
      [] b.tag = "Once" -> hyper_body_from(b.bytes)
      [] b.tag = "Chunks" -> wrap_chunks(b.chunks)
      [] b.tag = "Stream" -> b.stream

\* Response::write_back: the outgoing hyper response.
write_back(r0, out, order) ==
    LET r == write_cookies_to_headers(r0, order)
    IN  [status |-> out_status(r.status_code),
         headers |-> out_headers(r.headers, r.body),
         body |-> out_body(r.body, out)]

----------------------------------------------------------------------------
\* The state machine.  pc is "building" until write_back consumes the response.
\* ret is the last Result returned: the operation and whether it was Ok; right
\* after construction it names the constructor.  built is the constructor the
\* response came from.  appended is the
\* sequence of buffers written to the current body, pulled the results of the
\* poll_next calls on it, interleaved whether a write followed a pull.

self == Response(status_code, status_error, headers, version, cookies, body)

Assign(r) ==
    /\ status_code' = r.status_code
    /\ status_error' = r.status_error
    /\ headers' = r.headers
    /\ version' = r.version
    /\ cookies' = r.cookies
    /\ body' = r.body

Returned(op, ok) == ret' = [op |-> op, ok |-> ok]

\* Operations that return no Result leave the unit value.
Unit == [op |-> "", ok |-> TRUE]
ReturnedUnit == ret' = Unit

\* The buffers a body holds, front to back.
Held(b) ==
    CASE b.tag = "Once" -> <<b.bytes>>
      [] b.tag = "Chunks" -> b.chunks
      [] OTHER -> <<>>

CanWrite == body.tag = "Stream" \/ (Len(appended) < MaxAppends /\ Len(Held(body)) < MaxAppends)

Wrote(data, ok) ==
    /\ appended' = IF ok THEN Append(appended, data) ELSE appended
    /\ interleaved' = (interleaved \/ (ok /\ pulled # <<>>))
    /\ pulled' = pulled
    /\ built' = built

Constructed(r, op) ==
    /\ status_code = r.status_code
    /\ status_error = r.status_error
    /\ headers = r.headers
    /\ version = r.version
    /\ cookies = r.cookies
    /\ body = r.body
    /\ ret = [op |-> op, ok |-> TRUE]
    /\ built = op
    /\ res = NewHyperResponse
    /\ pc = "building"
    /\ appended = <<>>
    /\ pulled = <<>>
    /\ interleaved = FALSE

InitBody == Constructed(new, "new")

Init ==
    \/ Constructed(new, "new")
    \/ \E inb \in Inbound : Constructed(from(inb), "from")

SetStatusCode(code) ==
    /\ pc = "building"
    /\ Assign(set_status_code(self, code))
    /\ ReturnedUnit
    /\ UNCHANGED <<res, pc, ghosts>>

SetStatusError(err) ==
    /\ pc = "building"
    /\ Assign(set_status_error(self, err))
    /\ ReturnedUnit
    /\ UNCHANGED <<res, pc, ghosts>>

PieceWrote(piece) ==
    IF piece.kind = "text"
    THEN Wrote(piece.text, write_body(body, piece.text).ok)
    ELSE UNCHANGED ghosts

Render(piece) ==
    /\ pc = "building"
    /\ piece.kind = "text" => CanWrite
    /\ Assign(render(self, piece))
    /\ PieceWrote(piece)
    /\ ReturnedUnit
    /\ UNCHANGED <<res, pc>>

Stuff(code, piece) ==
    /\ pc = "building"
    /\ piece.kind = "text" => CanWrite
    /\ Assign(stuff(self, code, piece))
    /\ PieceWrote(piece)
    /\ ReturnedUnit
    /\ UNCHANGED <<res, pc>>

AddHeader(name, value, overwrite) ==
    /\ pc = "building"
    /\ overwrite \/ Len(headers[name]) < MaxHeaderVals
    /\ LET a == add_header(self, name, value, overwrite)
       IN  Assign(a.r) /\ Returned("add_header", a.ok)
    /\ UNCHANGED <<res, pc, ghosts>>

AddCookie(c) ==
    /\ pc = "building"
    /\ cookies' = jar_add(cookies, c)
    /\ ReturnedUnit
    /\ UNCHANGED <<status_code, status_error, headers, version, body, res, pc, ghosts>>

RemoveCookie(name) ==
    /\ pc = "building"
    /\ cookies' = jar_remove(cookies, Cookie(name, "", ""))
    /\ ReturnedUnit
    /\ UNCHANGED <<status_code, status_error, headers, version, body, res, pc, ghosts>>

WriteBody(data) ==
    /\ pc = "building"
    /\ CanWrite
    /\ LET w == write_body(body, data)
       IN  body' = w.body /\ Returned("write_body", w.ok) /\ Wrote(data, w.ok)
    /\ UNCHANGED <<envelope, res, pc>>

Streaming(source) ==
    /\ pc = "building"
    /\ LET s == streaming(body, source)
       IN  body' = s.body /\ Returned("streaming", s.ok)
    /\ UNCHANGED <<envelope, res, pc, ghosts>>

PollNext(srcReady) ==
    /\ pc = "building"
    /\ Len(pulled) < MaxPolls
    /\ LET p == poll_next(body, srcReady)
       IN  body' = p.body /\ pulled' = Append(pulled, p.result)
    /\ ReturnedUnit
    /\ UNCHANGED <<envelope, res, pc, built, appended, interleaved>>

SetBody(b) ==
    /\ pc = "building"
    /\ body' = b
    /\ appended' = Held(b)
    /\ pulled' = <<>>
    /\ interleaved' = FALSE
    /\ built' = built
    /\ ReturnedUnit
    /\ UNCHANGED <<envelope, res, pc>>

TakeBody ==
    /\ pc = "building"
    /\ body' = BodyNone
    /\ appended' = <<>>
    /\ pulled' = <<>>
    /\ interleaved' = FALSE
    /\ built' = built
    /\ ReturnedUnit
    /\ UNCHANGED <<envelope, res, pc>>

WriteBack(order) ==
    /\ pc = "building"
    /\ res' = write_back(self, res, order)
    /\ Assign(write_cookies_to_headers(self, order))
    /\ pc' = "finalized"
    /\ ReturnedUnit
    /\ UNCHANGED ghosts

\* The values the operations are called with.
HeaderInputs ==
    { <<CONTENT_LENGTH, Plain("5")>>,
      <<SET_COOKIE, <<Seg("s", "1")>> >>,
      <<CONTENT_TYPE, Plain("/x\n")>> }

BodyInputs == {BodyChunks(<<>>), BodyChunks(<<OneByte>>)}

EnvelopeBuffers == {Empty, Hello}

\* The body container driven alone: writes, stream installation and pulls.
NextBody ==
    \/ \E data \in Buffers : WriteBody(data)
    \/ \E source \in Sources : Streaming(source)
    \/ \E srcReady \in BOOLEAN : PollNext(srcReady)

\* The operations that set the status, and finalization.
NextStatus ==
    \/ \E code \in StatusCodes : SetStatusCode(code)
    \/ \E err \in StatusErrors : SetStatusError(err)
    \/ \E piece \in Pieces : Render(piece)
    \/ \E code \in StatusCodes, piece \in Pieces : Stuff(code, piece)
    \/ \E order \in Orders(cookies.delta) : WriteBack(order)

\* The operations that set headers, cookies and body, and finalization.
NextFinal ==
    \/ \E in \in HeaderInputs, overwrite \in BOOLEAN : AddHeader(in[1], in[2], overwrite)
    \/ \E c \in Cookies : AddCookie(c)
    \/ \E name \in CookieNames : RemoveCookie(name)
    \/ \E data \in EnvelopeBuffers : Len(Held(body)) < MaxEnvelopeBufs /\ WriteBody(data)
    \/ \E source \in Sources : Streaming(source)
    \/ \E b \in BodyInputs : SetBody(b)
    \/ TakeBody
    \/ \E order \in Orders(cookies.delta) : WriteBack(order)

\* Every operation.  The status operations leave headers, cookies and body
\* alone but for what a rendered piece writes, and the header, cookie and body
\* operations leave the status alone, so each group is explored on its own,
\* together with finalization.
Next == NextBody \/ NextStatus \/ NextFinal

SpecBody == InitBody /\ [][NextBody]_vars
SpecStatus == Init /\ [][NextStatus]_vars
SpecFinal == Init /\ [][NextFinal]_vars
Spec == Init /\ [][Next]_vars

----------------------------------------------------------------------------
\* Properties of the body container.

\* The buffers returned by the pulls so far, in the order returned.
DataOf(results) ==
    LET some == SelectSeq(results, LAMBDA p : p.some)
    IN  [i \in 1..Len(some) |-> some[i].item.data]

AllOk(results) == \A i \in 1..Len(results) : results[i].ready /\ results[i].item.ok

\* Writes only, then pulls only, the last pull reporting end-of-body.
AppendThenDrain ==
    /\ ~is_stream(body)
    /\ ~interleaved
    /\ pulled # <<>>
    /\ pulled[Len(pulled)] = ReadyNone

\* C1, as stated: after a sequence of write_body calls on a None body, pulling
\* until end-of-body returns exactly the appended buffers, in append order, and
\* the same bytes.
C1_PullsEqualAppends ==
    AppendThenDrain =>
        /\ DataOf(pulled) = appended
        /\ Concat(DataOf(pulled)) = Concat(appended)

\* C1, amended: pulling until end-of-body returns exactly the appended buffers
\* in append order, except that a lone empty buffer is not returned at all (the
\* first pull reports end-of-body); the pulled bytes equal the appended bytes.
C1_PullsEqualAppendsButLoneEmpty ==
    AppendThenDrain =>
        /\ AllOk(pulled)
        /\ DataOf(pulled) = (IF appended = <<Empty>> THEN <<>> ELSE appended)
        /\ Concat(DataOf(pulled)) = Concat(appended)

C1_Witness ==
    /\ AppendThenDrain
    /\ Len(appended) = MaxAppends
    /\ appended[1] # appended[2]
    /\ DataOf(pulled) = appended

\* A body made Once by a single write, pulled any number of times.
OncePulled == Len(appended) = 1 /\ is_once(body) /\ ~interleaved

\* C2, as stated: the first pull of Once(buffer) returns the buffer, every later
\* pull returns end-of-body.
C2_OnceThenEnd ==
    OncePulled =>
        /\ Len(pulled) >= 1 => pulled[1] = ReadySome(Ok(appended[1]))
        /\ \A i \in 2..Len(pulled) : pulled[i] = ReadyNone

\* C2, amended: for a non-empty buffer the first pull returns the buffer and
\* every later pull returns end-of-body; for an empty buffer every pull, the
\* first included, returns end-of-body.
C2_NonEmptyOnceThenEnd ==
    OncePulled =>
        /\ Len(pulled) >= 1 =>
              pulled[1] = (IF appended[1] = Empty THEN ReadyNone
                           ELSE ReadySome(Ok(appended[1])))
        /\ \A i \in 2..Len(pulled) : pulled[i] = ReadyNone

C2_Witness ==
    /\ OncePulled
    /\ appended[1] = Hello
    /\ Len(pulled) >= 2
    /\ body = BodyOnce(Empty)

\* C3: write_body on a Stream body returns an error and changes neither the
\* body nor any other field of the response.
C3_WriteToStreamRejected ==
    [][(is_stream(body) /\ ret'.op = "write_body") =>
          (~ret'.ok /\ body' = body /\ UNCHANGED envelope)]_vars

C3_Witness ==
    /\ ret = [op |-> "write_body", ok |-> FALSE]
    /\ is_stream(body)
    /\ body.stream # <<>>

\* C4: streaming succeeds exactly when the body is None, and then the body is a
\* Stream; otherwise it returns an error and leaves the body as it was.
C4_StreamingOnlyOverNone ==
    [][ret'.op = "streaming" =>
          /\ ret'.ok <=> is_none(body)
          /\ ret'.ok => is_stream(body')
          /\ ~ret'.ok => body' = body]_vars

C4_Witness ==
    /\ ret = [op |-> "streaming", ok |-> FALSE]
    /\ is_chunks(body)

\* C5: size() is Some(0) for None, Some(length of the buffer) for Once,
\* Some(total length of the queued buffers) for Chunks and None for Stream, in
\* every state reached by writes and pulls.
C5_SizeIsHeldBytes ==
    /\ is_none(body) => size(body) = SomeSize(0)
    /\ is_once(body) => size(body) = SomeSize(Len(body.bytes))
    /\ is_chunks(body) => size(body) = SomeSize(Len(Concat(body.chunks)))
    /\ is_stream(body) => size(body) = NoSize
    /\ ~is_stream(body) => size(body).val = Len(Concat(appended)) - Len(Concat(DataOf(pulled)))

C5_Witness ==
    /\ is_chunks(body)
    /\ interleaved
    /\ Len(body.chunks) = 2
    /\ size(body) = SomeSize(Len(Hello) + Len(OneByte))

\* C6: write_body turns None into Once(buffer), Once(existing) into
\* Chunks([existing, buffer]) and pushes to the back of Chunks, returning Ok each
\* time; "hello" then " world" gives Chunks of size 11 that pulls back as
\* "hello", " world", end-of-body.
WrittenLast == appended'[Len(appended')]

PromotionLadder ==
    (ret'.op = "write_body" /\ ~is_stream(body)) =>
        /\ ret'.ok
        /\ is_none(body) => body' = BodyOnce(WrittenLast)
        /\ is_once(body) => body' = BodyChunks(<<body.bytes, WrittenLast>>)
        /\ is_chunks(body) => body' = BodyChunks(body.chunks \o <<WrittenLast>>)

HelloWorld ==
    (appended = <<Hello, World>> /\ ~interleaved) =>
        /\ pulled = <<>> => (is_chunks(body) /\ size(body) = SomeSize(11))
        /\ Len(pulled) = 3 =>
              pulled = <<ReadySome(Ok(Hello)), ReadySome(Ok(World)), ReadyNone>>

C6_PromotionLadder == [][PromotionLadder]_vars /\ []HelloWorld

C6_Witness ==
    /\ appended = <<Hello, World>>
    /\ ~interleaved
    /\ Len(pulled) = 3
    /\ body = BodyChunks(<<>>)

----------------------------------------------------------------------------
\* Properties of finalization.

\* The step in which write_back consumes the response.
Finalizing == pc = "building" /\ pc' = "finalized"

\* C7: the outgoing status is the response's status code when one is set and
\* 404 Not Found when none is, whatever the body; never 200 for an unset status.
C7_StatusOrNotFound ==
    [][Finalizing =>
          /\ status_code.some => res'.status = status_code.code
          /\ ~status_code.some => (res'.status = 404 /\ res'.status # 200)]_vars

C7_Witness ==
    /\ pc = "finalized"
    /\ ~status_code.some
    /\ body = BodyOnce(Hello)
    /\ res.status = 404
    /\ res.body = <<Ok(Hello)>>

\* C8: whenever the status is a non-success code that from_code has an entry
\* for, status_error is present.
C8_ErrorStatusHasError ==
    (status_code.some /\ ~is_success(status_code.code) /\ has_mapping(status_code.code))
        => status_error.some

\* The items successive poll_next calls on a body return before end-of-body,
\* its source ready at every call.
RECURSIVE Drain(_)
Drain(b) ==
    LET p == poll_next(b, TRUE)
    IN  IF p.result.some THEN <<p.result.item>> \o Drain(p.body) ELSE <<>>

BytesOf(items) == Concat([i \in 1..Len(items) |-> items[i].data])

\* C9: the body the transport receives is the held buffer for Once, the queued
\* buffers in queue order for Chunks and the source's items for Stream; its
\* bytes are those successive poll_next calls on the body would have returned.
C9_BodyHandedOver ==
    [][Finalizing =>
          /\ is_once(body) => BytesOf(res'.body) = body.bytes
          /\ is_chunks(body) =>
                /\ Len(res'.body) = Len(body.chunks)
                /\ \A i \in 1..Len(body.chunks) : res'.body[i] = Ok(body.chunks[i])
          /\ is_stream(body) => res'.body = body.stream
          /\ res'.body = Drain(body)
          /\ BytesOf(res'.body) = BytesOf(Drain(body))]_vars

C9_Witness ==
    /\ pc = "finalized"
    /\ is_chunks(body)
    /\ res.body = <<Ok(Empty), Ok(Hello)>>

\* C10: write_back sets Content-Length, to the single value "0", only for a None
\* body; for Once, Chunks and Stream the outgoing headers are the response's
\* headers after cookie serialization.
C10_ContentLengthOnlyForNone ==
    [][Finalizing =>
          /\ \E order \in Orders(cookies.delta) : headers' = append_cookies(headers, order)
          /\ is_none(body) => res'.headers = [headers' EXCEPT ![CONTENT_LENGTH] = <<Plain("0")>>]
          /\ ~is_none(body) => res'.headers = headers'
          /\ \A n \in HeaderNames \ {CONTENT_LENGTH, SET_COOKIE} : res'.headers[n] = headers[n]
          /\ ~is_none(body) => res'.headers[CONTENT_LENGTH] = headers[CONTENT_LENGTH]]_vars

C10_Witness ==
    /\ pc = "finalized"
    /\ is_none(body)
    /\ headers[CONTENT_LENGTH] = <<Plain("5")>>
    /\ res.headers[CONTENT_LENGTH] = <<Plain("0")>>
    /\ res.headers[SET_COOKIE] # <<>>

----------------------------------------------------------------------------
\* Properties of cookies and headers.

IsPrefix(p, q) == Len(p) <= Len(q) /\ \A i \in 1..Len(p) : q[i] = p[i]

Encodable(jar) == {c \in jar.delta : is_valid_header_value(encoded(c))}

\* C11: finalization appends a Set-Cookie value for every pending cookie that
\* encodes to a valid header value, after the Set-Cookie values already there,
\* skips the cookies that do not encode, and leaves the pending delta empty.
C11_CookiesSerialized ==
    [][Finalizing =>
          /\ \A c \in Encodable(cookies) :
                \E i \in 1..Len(res'.headers[SET_COOKIE]) :
                    res'.headers[SET_COOKIE][i] = encoded(c)
          /\ IsPrefix(headers[SET_COOKIE], res'.headers[SET_COOKIE])
          /\ Len(res'.headers[SET_COOKIE]) =
                Len(headers[SET_COOKIE]) + Cardinality(Encodable(cookies))
          /\ \A i \in 1..Len(res'.headers[SET_COOKIE]) :
                is_valid_header_value(res'.headers[SET_COOKIE][i])
          /\ cookies' = NewJar
          /\ cookies'.delta = {}]_vars

C11_Witness ==
    /\ pc = "finalized"
    /\ built = "new"
    /\ cookies.delta = {}
    /\ res.headers[SET_COOKIE] = << <<Seg("s", "1")>>, <<Seg("x%20y", "1"), Seg("Path", "/")>> >>

\* C12: add_header with a valid value leaves the new value alone under the name
\* when overwrite is set and adds it after the existing values when it is not,
\* other names untouched; with an invalid value it returns an error and the
\* header map is unchanged.
AddHeaderResult(name, value, overwrite) ==
    LET a == add_header(self, name, value, overwrite)
    IN  IF is_valid_header_value(value)
        THEN /\ a.ok
             /\ overwrite => a.r.headers[name] = <<value>>
             /\ ~overwrite => a.r.headers[name] = headers[name] \o <<value>>
             /\ \A n \in HeaderNames \ {name} : a.r.headers[n] = headers[n]
        ELSE ~a.ok /\ a.r.headers = headers

AddHeaderStep ==
    ret'.op = "add_header" =>
        \E in \in HeaderInputs, overwrite \in BOOLEAN :
            LET a == add_header(self, in[1], in[2], overwrite)
            IN  /\ ret'.ok = a.ok
                /\ headers' = a.r.headers
                /\ ~ret'.ok => headers' = headers
                /\ UNCHANGED <<status_code, status_error, version, cookies, body>>

C12_AddHeader ==
    /\ [][AddHeaderStep]_vars
    /\ [](\A in \in HeaderInputs, overwrite \in BOOLEAN :
              AddHeaderResult(in[1], in[2], overwrite))

C12_Witness ==
    /\ ret = [op |-> "add_header", ok |-> TRUE]
    /\ headers[SET_COOKIE] = << <<Seg("d", "<80>")>>, <<Seg("s", "1")>> >>
    /\ headers[CONTENT_LENGTH] = <<Plain("5")>>

----------------------------------------------------------------------------
\* Properties of pulling.

\* The step of a poll_next call, and the value it returned.
PollStep == Len(pulled') = Len(pulled) + 1
Polled == pulled'[Len(pulled')]

\* The items returned by the pulls so far.
ItemsOf(results) ==
    LET some == SelectSeq(results, LAMBDA p : p.some)
    IN  [i \in 1..Len(some) |-> some[i].item]

\* C13: the results poll_next returns on a Stream body are the items its source
\* emits, data and errors alike, then the end marker, in the source's order,
\* none skipped, duplicated or altered.
StreamForwarded ==
    (PollStep /\ is_stream(body)) =>
        \/ Polled = Pending /\ body' = body
        \/ body.stream = <<>> /\ Polled = ReadyNone /\ body' = body
        \/ /\ body.stream # <<>>
           /\ Polled = ReadySome(Head(body.stream))
           /\ body' = BodyStream(Tail(body.stream))

C13_StreamForwarded ==
    /\ [][StreamForwarded]_vars
    /\ [](is_stream(body) => ItemsOf(pulled) \o body.stream \in Sources)

C13_Witness ==
    /\ is_stream(body)
    /\ body.stream = <<>>
    /\ ItemsOf(pulled) = <<Ok(OneByte), Err("reset"), Ok(Hello)>>
    /\ pulled[Len(pulled)] = ReadyNone

\* C14: poll_next on Chunks removes the front buffer and returns it, the rest
\* of the queue kept in order; on an empty queue it returns end-of-body and the
\* body stays an empty Chunks.
C14_ChunksPopFront ==
    [][(PollStep /\ is_chunks(body)) =>
          IF body.chunks # <<>>
          THEN /\ Polled = ReadySome(Ok(body.chunks[1]))
               /\ is_chunks(body')
               /\ Len(body'.chunks) = Len(body.chunks) - 1
               /\ \A i \in 1..Len(body'.chunks) : body'.chunks[i] = body.chunks[i + 1]
          ELSE Polled = ReadyNone /\ body' = BodyChunks(<<>>)]_vars

C14_Witness ==
    /\ body = BodyChunks(<<>>)
    /\ Len(appended) = MaxAppends
    /\ Len(pulled) = MaxAppends + 1
    /\ pulled[Len(pulled)] = ReadyNone

\* C15: poll_next on a None, Once or Chunks body returns a ready result in the
\* same call; a pending result comes only from a Stream body.
C15_BufferedNeverPending ==
    /\ [][PollStep => (Polled.ready \/ is_stream(body))]_vars
    /\ [](\A i \in 1..Len(pulled) : ~pulled[i].ready => is_stream(body))
    /\ [](~is_stream(body) =>
              \A srcReady \in BOOLEAN : poll_next(body, srcReady).result.ready)

C15_Witness ==
    /\ body = BodyChunks(<<>>)
    /\ interleaved
    /\ Len(pulled) = MaxPolls
    /\ \A i \in 1..Len(pulled) : pulled[i].ready

----------------------------------------------------------------------------
\* Properties of construction from an inbound response, and of the status pair.

\* A Set-Cookie value that reads as text and starts with a name=value pair.
WellFormed(hv) == hv # <<>> /\ to_str_ok(hv) /\ hv[1].eq /\ hv[1].k # ""

InJar(jar, hv) ==
    \E c \in jar.original \cup jar.delta :
        c.name = percent_decode(hv[1].k) /\ c.value = percent_decode(hv[1].v)

\* C16: a response constructed from an inbound response keeps its status,
\* version and headers, has no status_error and a Stream body over the inbound
\* body, and its jar holds a cookie for every well-formed Set-Cookie value of
\* the inbound headers, however many values there are.
C16_FromInbound ==
    ret.op = "from" =>
        \E inb \in Inbound :
            /\ status_code = SomeCode(inb.status)
            /\ version = inb.version
            /\ headers = inb.headers
            /\ status_error = NoError
            /\ is_stream(body)
            /\ body.stream = inb.body
            /\ \A i \in 1..Len(inb.headers[SET_COOKIE]) :
                   WellFormed(inb.headers[SET_COOKIE][i])
                       => InJar(cookies, inb.headers[SET_COOKIE][i])

\* C17: a response built with new and changed by set_status_code,
\* set_status_error and stuff never stores a status_error whose code differs
\* from the stored status.
C17_ErrorAgreesWithStatus ==
    (built = "new" /\ pc = "building" /\ status_error.some) =>
        (status_code.some /\ status_code.code = status_error.code)

----------------------------------------------------------------------------
\* Properties of interleaved appends and pulls.

\* C18: whatever the interleaving of write_body and poll_next on a buffered
\* body, the bytes pulled so far followed by the bytes still held are the bytes
\* appended so far, and the pulled byte count plus size() is the appended count.
C18_NoByteLostOrDuplicated ==
    ~is_stream(body) =>
        /\ Concat(DataOf(pulled)) \o Concat(Held(body)) = Concat(appended)
        /\ size(body).some
        /\ Len(Concat(DataOf(pulled))) + size(body).val = Len(Concat(appended))

C18_Witness ==
    /\ interleaved
    /\ appended = <<Hello, World>>
    /\ pulled = <<ReadySome(Ok(Hello))>>
    /\ body = BodyChunks(<<Empty, World>>)

\* C19: a buffered body holding n buffers yields at most n data results before
\* end-of-body; a pull that returns end-of-body leaves the body as it was, and a
\* further pull of that body returns end-of-body again.
EndIsSticky ==
    (PollStep /\ ~is_stream(body) /\ Polled = ReadyNone) =>
        /\ body' = body
        /\ \A srcReady \in BOOLEAN : poll_next(body', srcReady).result = ReadyNone

C19_DrainsWithinHeld ==
    /\ [][EndIsSticky]_vars
    /\ [](~is_stream(body) =>
              /\ Len(Drain(body)) <= Len(Held(body))
              /\ ~interleaved => Len(DataOf(pulled)) <= Len(appended))

C19_Witness ==
    /\ ~interleaved
    /\ appended = <<Empty, World>>
    /\ pulled = <<ReadySome(Ok(Empty)), ReadySome(Ok(World)), ReadyNone, ReadyNone>>
    /\ body = BodyChunks(<<>>)

\* C20: exactly one of is_none, is_once, is_chunks, is_stream holds; poll_next
\* keeps the tag (a pulled Once is a Once with an empty buffer); write_body and
\* streaming move it only None -> Once -> Chunks or None -> Stream.
Tags(b) ==
    (IF is_none(b) THEN 1 ELSE 0) + (IF is_once(b) THEN 1 ELSE 0)
      + (IF is_chunks(b) THEN 1 ELSE 0) + (IF is_stream(b) THEN 1 ELSE 0)

TagMoves ==
    \/ body'.tag = body.tag
    \/ is_none(body) /\ is_once(body')
    \/ is_once(body) /\ is_chunks(body')
    \/ is_none(body) /\ is_stream(body')

PollKeepsTag ==
    PollStep =>
        /\ body'.tag = body.tag
        /\ (is_once(body) /\ Polled.some) => body' = BodyOnce(<<>>)

C20_TagLadder ==
    /\ [][TagMoves /\ PollKeepsTag]_vars
    /\ [](Tags(body) = 1)

C20_Witness ==
    /\ body = BodyOnce(Empty)
    /\ appended = <<World>>
    /\ pulled = <<ReadySome(Ok(World)), ReadyNone>>

\* C21: right after construction from an inbound response the jar's delta is
\* empty, and finalizing with no cookie operation in between sends the inbound
\* Set-Cookie values as they were, none added or duplicated.
FinalizedAsReceived ==
    (ret.op = "from" /\ Finalizing) =>
        /\ res'.headers[SET_COOKIE] = headers[SET_COOKIE]
        /\ \E inb \in Inbound : res'.headers[SET_COOKIE] = inb.headers[SET_COOKIE]

C21_InboundDeltaEmpty ==
    /\ [](ret.op = "from" => cookies.delta = {})
    /\ [][FinalizedAsReceived]_vars

====
